---- MODULE Spec2Model ----
(***************************************************************************)
(* Event-plane Q-vector building over a list of input files                *)
(* (EventPlaneAnalysis.cpp), and the (run, event) index and the candidate   *)
(* loop of GlobalPolarizationAnalysis_FilePrep.C.                           *)
(*                                                                         *)
(* Number representation.                                                  *)
(*   eta, BIPCHI2 : tenths (2.5 is 25, 1.5 is 15); every threshold of the   *)
(*                  source (0.5, 1.5, 2.5, 4.0, 6.0) is exact in binary     *)
(*                  floating point, so the comparisons are exact.          *)
(*   PVZ          : whole units.                                           *)
(*   phi          : eighths of a turn (1 is pi/4); TMath::Pi() is 4.       *)
(*   cos, sin     : exact values on that grid, a pair <<a, b>> standing     *)
(*                  for (a + b*sqrt(2))/2; rounding of the double          *)
(*                  arithmetic is not modelled.                            *)
(***************************************************************************)
EXTENDS Integers, Sequences, FiniteSets, TLC

\* ------------------------------------------------------------------ bounds
\* Largest number of events in the input tree.
MaxEvents == 2
\* Capacity of the per-track branch buffers (maxTracks in the source).
MaxTrk == 28
\* Largest number of records in the event-plane tree of the file preparation.
MaxEP == 3

\* ------------------------------------------------------- exact arithmetic
Add(x, y) == <<x[1] + y[1], x[2] + y[2]>>
Scale(w, x) == <<w * x[1], w * x[2]>>
Zero2 == <<0, 0>>

\* cos(k*pi/4)
CosE(k) ==
  LET r == k % 8 IN
  CASE r = 0 -> <<2, 0>>
    [] r = 1 -> <<0, 1>>
    [] r = 2 -> <<0, 0>>
    [] r = 3 -> <<0, -1>>
    [] r = 4 -> <<-2, 0>>
    [] r = 5 -> <<0, -1>>
    [] r = 6 -> <<0, 0>>
    [] r = 7 -> <<0, 1>>

\* sin(k*pi/4) = cos(k*pi/4 - pi/2)
SinE(k) == CosE(k + 6)

\* --------------------------------------------------------- input events
Trk(b, e, k, p) == [bip |-> b, eta |-> e, back |-> k, phi |-> p]

\* Backward-flagged tracks are stored with positive eta; the first sits
\* exactly on the quality threshold.
BackTrk(j) == Trk(IF j = 1 THEN 15 ELSE 10, IF j % 2 = 0 THEN 10 ELSE 30, 1, (3 * j) % 8)
Bin1Trk(j) == Trk(10, IF j % 2 = 0 THEN 10 ELSE 25, 0, j % 8)
Bin2Trk(j) == Trk(10, IF j % 2 = 0 THEN 30 ELSE 40, 0, (j + 2) % 8)
Bin3Trk(j) == Trk(10, IF j % 2 = 0 THEN 50 ELSE 60, 0, (2 * j + 1) % 8)

Tracks(nb, n1, n2, n3, extra) ==
  [j \in 1..nb |-> BackTrk(j)] \o [j \in 1..n1 |-> Bin1Trk(j)]
    \o [j \in 1..n2 |-> Bin2Trk(j)] \o [j \in 1..n3 |-> Bin3Trk(j)] \o extra

Ev(pvs, nback, pvz, trks) ==
  [EVENTNUMBER |-> 0, RUNNUMBER |-> 274156, nPVs |-> pvs, nBackTracks |-> nback,
   PVZ |-> pvz, nVeloTracks |-> Len(trks), tracks |-> trks]

Good(trks) == Ev(1, 10, 0, trks)
Full == Tracks(5, 5, 5, 5, <<>>)

\* Tracks around the cuts: over the significance cut (backward-flagged, and
\* inside forward bin 2), backward-flagged with |eta| below and exactly 0.5,
\* unflagged with negative eta, unflagged at exactly 0.5, beyond 6.0, just
\* above 0.5 with a negative angle.
EdgeTracks ==
  <<Trk(16, 10, 1, 2), Trk(16, 30, 0, 1), Trk(10, 3, 1, 5), Trk(10, 5, 1, 0),
    Trk(10, -10, 0, 3), Trk(10, 5, 0, 1), Trk(10, 70, 0, 7), Trk(10, 6, 0, -1)>>

RawEvents ==
  << \* track content around the multiplicity requirement
     Ev(1, 10, 100, Full),
     Good(Tracks(5, 4, 5, 5, <<>>)),
     Good(Tracks(5, 5, 5, 4, <<>>)),
     Good(Tracks(5, 5, 5, 5, EdgeTracks)),
     Ev(1, 10, -100, Tracks(4, 5, 5, 5, <<Trk(10, 3, 1, 1)>>)),
     Good(Tracks(4, 5, 5, 5, <<Trk(10, -10, 0, 2)>>)),
     Good(Tracks(5, 5, 4, 5, <<Trk(10, -30, 1, 6)>>)),
     Good(Tracks(5, 5, 4, 5, <<Trk(16, 30, 0, 1), Trk(10, 25, 0, 3)>>)),
     \* event scalars around the selection thresholds
     Ev(2, 10, 0, Full),
     Ev(1, 9, 0, Full),
     Ev(1, 11, -101, Full),
     Ev(1, 10, 101, Full),
     Good(Tracks(4, 4, 3, 3, <<>>)),
     Good(Tracks(5, 5, 5, 0, <<>>)) >>

\* The event number of a catalogue entry is its position.
EventCatalogue == [k \in 1..Len(RawEvents) |-> [RawEvents[k] EXCEPT !.EVENTNUMBER = k]]


\* ------------------------------------------------------------------ state
VARIABLES
  fileNames,             \* the input files, each with what opening it finds
  iFile,                 \* position of the file loop in fileNames (first file is 1)
  outFile,               \* the output file: the trees written to it, and whether it is open
  tree,                  \* EventTuplePV of the open file: its entries (catalogue positions)
  pc,                    \* position in EventPlaneAnalysis
  iEvent,                \* event loop index (first entry is 1)
  iTrack,                \* track loop index (first track is 1)
  EVENTNUMBER, RUNNUMBER, nPVs, nBackTracks, nVeloTracks,
  PVZ,                   \* PVZ[0]
  VELOTRACK_BIPCHI2, VELOTRACK_ETA, VELOTRACK_ISBACKWARD, VELOTRACK_PHI,
  nPrimaryForTracks, nPrimaryBackTracks,
  nPrimaryForTracks_1, nPrimaryForTracks_2, nPrimaryForTracks_3,
  Qx_back, Qy_back, Qx_for, Qy_for,
  Qx_back_wEta, Qy_back_wEta, Qx_for_wEta, Qy_for_wEta,
  evt,                   \* the Event object bound to the output branch
  outTree,               \* EventPlaneTuple: the records filled so far
  EPtree,                \* file preparation: the event-plane tree read by the index build
  ppc,                   \* position in GlobalPolarizationAnalysis_FilePrep
  iEP,                   \* index build loop index (first record is 0)
  epIndexMap,            \* bucket (hash value) -> sequence of <<key, position>>
  nWarnings,             \* duplicate-key warnings written to std::cerr
  ep,                    \* the EventPlane object bound to the branch of EPtree
  DecayTree,             \* the candidates of the input file (catalogue positions)
  iLambda,               \* candidate loop index i (first candidate is 0)
  totalLambdas, failedCuts, noMatch, saved,
  cut,                   \* the cut counters: cut.X is cut_X
  event,                 \* the Event object bound to the branch "event" (evt)
  LambdaEventPlaneTree   \* the output tree of the file preparation (outTree)

branches == <<EVENTNUMBER, RUNNUMBER, nPVs, nBackTracks, nVeloTracks, PVZ>>
arrays == <<VELOTRACK_BIPCHI2, VELOTRACK_ETA, VELOTRACK_ISBACKWARD, VELOTRACK_PHI>>
counters == <<nPrimaryForTracks, nPrimaryBackTracks,
              nPrimaryForTracks_1, nPrimaryForTracks_2, nPrimaryForTracks_3>>
sums == <<Qx_back, Qy_back, Qx_for, Qy_for,
          Qx_back_wEta, Qy_back_wEta, Qx_for_wEta, Qy_for_wEta>>
fileVars == <<fileNames, iFile, outFile>>
analysisVars == <<fileVars, tree, pc, iEvent, iTrack, branches, arrays, counters, sums, evt, outTree>>
indexVars == <<EPtree, ppc, iEP, epIndexMap, nWarnings, ep>>
totals == <<totalLambdas, failedCuts, noMatch, saved, cut>>
matchVars == <<DecayTree, iLambda, totals, event, LambdaEventPlaneTree>>
prepVars == <<indexVars, matchVars>>
vars == <<analysisVars, fileVars, prepVars>>

\* The per-event locals of the event loop body, as one record.
Locals ==
  [nPrimaryForTracks |-> nPrimaryForTracks, nPrimaryBackTracks |-> nPrimaryBackTracks,
   nPrimaryForTracks_1 |-> nPrimaryForTracks_1, nPrimaryForTracks_2 |-> nPrimaryForTracks_2,
   nPrimaryForTracks_3 |-> nPrimaryForTracks_3,
   Qx_back |-> Qx_back, Qy_back |-> Qy_back, Qx_for |-> Qx_for, Qy_for |-> Qy_for,
   Qx_back_wEta |-> Qx_back_wEta, Qy_back_wEta |-> Qy_back_wEta,
   Qx_for_wEta |-> Qx_for_wEta, Qy_for_wEta |-> Qy_for_wEta]

SetLocals(s) ==
  /\ nPrimaryForTracks' = s.nPrimaryForTracks
  /\ nPrimaryBackTracks' = s.nPrimaryBackTracks
  /\ nPrimaryForTracks_1' = s.nPrimaryForTracks_1
  /\ nPrimaryForTracks_2' = s.nPrimaryForTracks_2
  /\ nPrimaryForTracks_3' = s.nPrimaryForTracks_3
  /\ Qx_back' = s.Qx_back
  /\ Qy_back' = s.Qy_back
  /\ Qx_for' = s.Qx_for
  /\ Qy_for' = s.Qy_for
  /\ Qx_back_wEta' = s.Qx_back_wEta
  /\ Qy_back_wEta' = s.Qy_back_wEta
  /\ Qx_for_wEta' = s.Qx_for_wEta
  /\ Qy_for_wEta' = s.Qy_for_wEta

\* ------------------------------------------------- EventPlaneAnalysis code
\* Variant: the nBackTracks cut rejects the threshold value itself.
PassesEventSelection_BackLE(pvs, nback, pvz, nvelo) ==
  /\ ~(pvs # 1)
  /\ ~(nback <= 10)
  /\ ~(pvz < -100 \/ pvz > 100)
  /\ ~(nvelo < 15)

\* Event selection: none of the four "continue" statements is taken.
PassesEventSelection(pvs, nback, pvz, nvelo) ==
  /\ ~(pvs # 1)
  /\ ~(nback < 10)
  /\ ~(pvz < -100 \/ pvz > 100)
  /\ ~(nvelo < 15)

\* Track multiplicities and Q-vectors as declared and initialised per event.
ZeroLocals ==
  [nPrimaryForTracks |-> 0, nPrimaryBackTracks |-> 0,
   nPrimaryForTracks_1 |-> 0, nPrimaryForTracks_2 |-> 0, nPrimaryForTracks_3 |-> 0,
   Qx_back |-> [i \in 0..1 |-> Zero2], Qy_back |-> [i \in 0..1 |-> Zero2],
   Qx_for |-> [i \in 0..1 |-> [j \in 0..3 |-> Zero2]],
   Qy_for |-> [i \in 0..1 |-> [j \in 0..3 |-> Zero2]],
   Qx_back_wEta |-> [i \in 0..1 |-> Zero2], Qy_back_wEta |-> [i \in 0..1 |-> Zero2],
   Qx_for_wEta |-> [i \in 0..1 |-> [j \in 0..3 |-> Zero2]],
   Qy_for_wEta |-> [i \in 0..1 |-> [j \in 0..3 |-> Zero2]]]

\* Variant: a track exactly on the significance threshold is skipped too.
PassesQuality_Strict(bip) == ~(bip >= 15)

\* Basic track quality cut: the track is skipped when BIPCHI2 > 1.5.
PassesQuality(bip) == ~(bip > 15)

\* Backward tracks: eta *= -1 and phi += pi, written back into the buffers.
FlipEta(eta, back) == IF back = 1 THEN eta * (-1) ELSE eta
\* Variant: the flipped angle is wrapped into one turn.
FlipPhi_Wrapped(phi, back) == IF back = 1 THEN (phi + 4) % 8 ELSE phi
FlipPhi(phi, back) == IF back = 1 THEN phi + 4 ELSE phi

InBack(eta) == eta < -5
InBin1(eta) == eta > 5 /\ eta <= 25
\* Variant: the lower bound of forward bin 2 is inclusive.
InBin2_LowerInclusive(eta) == eta >= 25 /\ eta <= 40
InBin2(eta) == eta > 25 /\ eta <= 40
InBin3(eta) == eta > 40 /\ eta <= 60
InForInclusive(eta) == eta > 5 /\ eta <= 60

\* Q[0] += w1 * f1; Q[1] += w2 * f2, with w1 = w2 = 1 and f1, f2 the cosines
\* (or sines) of 1 * phi and 2 * phi.
AddHarmonics(Q, f1, f2) ==
  [Q EXCEPT ![0] = Add(@, Scale(1, f1)), ![1] = Add(@, Scale(1, f2))]

\* Q_wEta[0] += wEta1 * f1; the n = 2 element is left alone.
AddEtaWeighted(Q, wEta1, f1) ==
  [Q EXCEPT ![0] = Add(@, Scale(wEta1, f1))]

\* Column j of a [2][4] array, and the array with that column replaced.
Col(Q, j) == [i \in 0..1 |-> Q[i][j]]
SetCol(Q, j, c) == [i \in 0..1 |-> [Q[i] EXCEPT ![j] = c[i]]]

\* Variant: the eta-weighted backward sums are filled for n = 2 as well.
AccumulateBack_WeightedN2(s, eta, phi) ==
  [s EXCEPT !.Qx_back = AddHarmonics(@, CosE(1 * phi), CosE(2 * phi)),
            !.Qy_back = AddHarmonics(@, SinE(1 * phi), SinE(2 * phi)),
            !.Qx_back_wEta = [@ EXCEPT ![0] = Add(@, Scale(eta, CosE(1 * phi))),
                                       ![1] = Add(@, Scale(eta, CosE(2 * phi)))],
            !.Qy_back_wEta = [@ EXCEPT ![0] = Add(@, Scale(eta, SinE(1 * phi))),
                                       ![1] = Add(@, Scale(eta, SinE(2 * phi)))]]

AccumulateBack(s, eta, phi) ==
  [s EXCEPT !.Qx_back = AddHarmonics(@, CosE(1 * phi), CosE(2 * phi)),
            !.Qy_back = AddHarmonics(@, SinE(1 * phi), SinE(2 * phi)),
            !.Qx_back_wEta = AddEtaWeighted(@, eta, CosE(1 * phi)),
            !.Qy_back_wEta = AddEtaWeighted(@, eta, SinE(1 * phi))]

AccumulateFor(s, j, eta, phi) ==
  [s EXCEPT !.Qx_for = SetCol(@, j, AddHarmonics(Col(@, j), CosE(1 * phi), CosE(2 * phi))),
            !.Qy_for = SetCol(@, j, AddHarmonics(Col(@, j), SinE(1 * phi), SinE(2 * phi))),
            !.Qx_for_wEta = SetCol(@, j, AddEtaWeighted(Col(@, j), eta, CosE(1 * phi))),
            !.Qy_for_wEta = SetCol(@, j, AddEtaWeighted(Col(@, j), eta, SinE(1 * phi)))]

\* The forward/backward tallies taken from the ISBACKWARD flag.
CountByFlag(s, back) ==
  [s EXCEPT !.nPrimaryForTracks = IF back # 1 THEN @ + 1 ELSE @,
            !.nPrimaryBackTracks = IF back = 1 THEN @ + 1 ELSE @]

\* One iteration of the track loop on a quality-passing track whose eta and
\* phi have already been flipped.
Classify(s, eta, back, phi) ==
  LET s1 == CountByFlag(s, back)
      s2 == IF InBack(eta) THEN AccumulateBack(s1, eta, phi) ELSE s1
      s3 == IF InBin1(eta)
            THEN [AccumulateFor(s2, 0, eta, phi) EXCEPT !.nPrimaryForTracks_1 = @ + 1]
            ELSE s2
      s4 == IF InBin2(eta)
            THEN [AccumulateFor(s3, 1, eta, phi) EXCEPT !.nPrimaryForTracks_2 = @ + 1]
            ELSE s3
      s5 == IF InBin3(eta)
            THEN [AccumulateFor(s4, 2, eta, phi) EXCEPT !.nPrimaryForTracks_3 = @ + 1]
            ELSE s4
  IN  IF InForInclusive(eta)
      THEN [AccumulateFor(s5, 3, eta, phi) EXCEPT !.nPrimaryForTracks = @ + 1]
      ELSE s5

\* One whole iteration of the track loop.
TrackBody(s, bip, eta, back, phi) ==
  IF PassesQuality(bip)
  THEN Classify(s, FlipEta(eta, back), back, FlipPhi(phi, back))
  ELSE s

\* Variant: forward bin 2 is required to hold 4 tracks only.
PassesMultiplicity_Bin2Of4(nFor, nBack, nFor1, nFor2, nFor3) ==
  /\ ~(nFor < 5)
  /\ ~(nBack < 5)
  /\ ~(nFor1 < 5)
  /\ ~(nFor2 < 4)
  /\ ~(nFor3 < 5)

\* Enough tracks in all subevents: none of the five "continue" statements is taken.
PassesMultiplicity(nFor, nBack, nFor1, nFor2, nFor3) ==
  /\ ~(nFor < 5)
  /\ ~(nBack < 5)
  /\ ~(nFor1 < 5)
  /\ ~(nFor2 < 5)
  /\ ~(nFor3 < 5)

\* The Event object as filled before outTree->Fill().  The scalars copied
\* through unchanged and read by nothing else (GPSTIME, PVX, PVY, the cluster
\* multiplicities) are left out.
FilledEvent ==
  [outEVENTNUMBER |-> EVENTNUMBER, outRUNNUMBER |-> RUNNUMBER, outPVZ |-> PVZ,
   outnBackTracks |-> nBackTracks, outnVeloTracks |-> nVeloTracks,
   out_Qmulti |-> [k \in 0..3 |-> CASE k = 0 -> nPrimaryForTracks_1
                                    [] k = 1 -> nPrimaryForTracks_2
                                    [] k = 2 -> nPrimaryForTracks_3
                                    [] k = 3 -> nPrimaryBackTracks],
   outQx_back |-> Qx_back, outQy_back |-> Qy_back,
   outQx_back_wEta |-> Qx_back_wEta, outQy_back_wEta |-> Qy_back_wEta,
   outQx_for |-> Qx_for, outQy_for |-> Qy_for,
   outQx_for_wEta |-> Qx_for_wEta, outQy_for_wEta |-> Qy_for_wEta]

\* new Event(): the constructor sets the two identifiers; the other members
\* are assigned before the first Fill and are never read before that.
NewEvent ==
  [outEVENTNUMBER |-> 0, outRUNNUMBER |-> 0, outPVZ |-> 0,
   outnBackTracks |-> 0, outnVeloTracks |-> 0,
   out_Qmulti |-> [k \in 0..3 |-> 0],
   outQx_back |-> ZeroLocals.Qx_back, outQy_back |-> ZeroLocals.Qy_back,
   outQx_back_wEta |-> ZeroLocals.Qx_back_wEta, outQy_back_wEta |-> ZeroLocals.Qy_back_wEta,
   outQx_for |-> ZeroLocals.Qx_for, outQy_for |-> ZeroLocals.Qy_for,
   outQx_for_wEta |-> ZeroLocals.Qx_for_wEta, outQy_for_wEta |-> ZeroLocals.Qy_for_wEta]

\* The entry of the input tree at position i.
Entry(i) == EventCatalogue[tree[i]]

\* tree->GetEntry(iEvent): every connected branch is read into its variable;
\* an array branch overwrites as many elements as the entry holds.
GetEntry ==
  /\ pc = "loop"
  /\ iEvent <= Len(tree)
  /\ LET e == Entry(iEvent) IN
       /\ EVENTNUMBER' = e.EVENTNUMBER
       /\ RUNNUMBER' = e.RUNNUMBER
       /\ nPVs' = e.nPVs
       /\ nBackTracks' = e.nBackTracks
       /\ nVeloTracks' = e.nVeloTracks
       /\ PVZ' = IF e.nPVs >= 1 THEN e.PVZ ELSE PVZ
       /\ VELOTRACK_BIPCHI2' = [i \in 1..MaxTrk |->
            IF i <= e.nVeloTracks THEN e.tracks[i].bip ELSE VELOTRACK_BIPCHI2[i]]
       /\ VELOTRACK_ETA' = [i \in 1..MaxTrk |->
            IF i <= e.nVeloTracks THEN e.tracks[i].eta ELSE VELOTRACK_ETA[i]]
       /\ VELOTRACK_ISBACKWARD' = [i \in 1..MaxTrk |->
            IF i <= e.nVeloTracks THEN e.tracks[i].back ELSE VELOTRACK_ISBACKWARD[i]]
       /\ VELOTRACK_PHI' = [i \in 1..MaxTrk |->
            IF i <= e.nVeloTracks THEN e.tracks[i].phi ELSE VELOTRACK_PHI[i]]
  /\ pc' = "select"
  /\ UNCHANGED <<tree, iEvent, iTrack, counters, sums, evt, outTree, fileVars, prepVars>>

EventSelection ==
  /\ pc = "select"
  /\ IF PassesEventSelection(nPVs, nBackTracks, PVZ, nVeloTracks)
     THEN pc' = "reset" /\ iEvent' = iEvent
     ELSE pc' = "loop" /\ iEvent' = iEvent + 1
  /\ UNCHANGED <<tree, iTrack, branches, arrays, counters, sums, evt, outTree, fileVars,
                 prepVars>>

\* Variant: the counters and sums live outside the event loop and are not
\* set back for a new event.
ResetEvent_CarriedOver ==
  /\ pc = "reset"
  /\ iTrack' = 1
  /\ pc' = "track"
  /\ UNCHANGED <<tree, iEvent, branches, arrays, counters, sums, evt, outTree, fileVars,
                 prepVars>>

ResetEvent ==
  /\ pc = "reset"
  /\ SetLocals(ZeroLocals)
  /\ iTrack' = 1
  /\ pc' = "track"
  /\ UNCHANGED <<tree, iEvent, branches, arrays, evt, outTree, fileVars, prepVars>>

TrackStep ==
  /\ pc = "track"
  /\ iTrack <= nVeloTracks
  /\ LET bip == VELOTRACK_BIPCHI2[iTrack]
         back == VELOTRACK_ISBACKWARD[iTrack]
         eta == VELOTRACK_ETA[iTrack]
         phi == VELOTRACK_PHI[iTrack]
     IN  /\ SetLocals(TrackBody(Locals, bip, eta, back, phi))
         /\ VELOTRACK_ETA' = IF PassesQuality(bip)
                             THEN [VELOTRACK_ETA EXCEPT ![iTrack] = FlipEta(eta, back)]
                             ELSE VELOTRACK_ETA
         /\ VELOTRACK_PHI' = IF PassesQuality(bip)
                             THEN [VELOTRACK_PHI EXCEPT ![iTrack] = FlipPhi(phi, back)]
                             ELSE VELOTRACK_PHI
  /\ iTrack' = iTrack + 1
  /\ UNCHANGED <<tree, pc, iEvent, branches, VELOTRACK_BIPCHI2, VELOTRACK_ISBACKWARD,
                 evt, outTree, fileVars, prepVars>>

EndTrackLoop ==
  /\ pc = "track"
  /\ ~(iTrack <= nVeloTracks)
  /\ pc' = "gate"
  /\ UNCHANGED <<tree, iEvent, iTrack, branches, arrays, counters, sums, evt, outTree,
                 fileVars, prepVars>>

\* The multiplicity requirement, then the filling of the Event object and
\* outTree->Fill(), which appends a copy of the object.
Discard ==
  /\ pc = "gate"
  /\ ~PassesMultiplicity(nPrimaryForTracks, nPrimaryBackTracks,
                         nPrimaryForTracks_1, nPrimaryForTracks_2, nPrimaryForTracks_3)
  /\ pc' = "loop"
  /\ iEvent' = iEvent + 1
  /\ UNCHANGED <<tree, iTrack, branches, arrays, counters, sums, evt, outTree, fileVars,
                 prepVars>>

Emit ==
  /\ pc = "gate"
  /\ PassesMultiplicity(nPrimaryForTracks, nPrimaryBackTracks,
                        nPrimaryForTracks_1, nPrimaryForTracks_2, nPrimaryForTracks_3)
  /\ evt' = FilledEvent
  /\ outTree' = Append(outTree, evt')
  /\ pc' = "loop"
  /\ iEvent' = iEvent + 1
  /\ UNCHANGED <<tree, iTrack, branches, arrays, counters, sums, fileVars, prepVars>>

\* End of the event loop: the input file is closed and deleted, and the file
\* loop goes on to the next name.
Finish ==
  /\ pc = "loop"
  /\ ~(iEvent <= Len(tree))
  /\ pc' = "file"
  /\ iFile' = iFile + 1
  /\ UNCHANGED <<fileNames, outFile, tree, iEvent, iTrack, branches, arrays, counters, sums,
                 evt, outTree, prepVars>>

\* What TFile::Open and the two Get calls find for a file name: "zombie" (the
\* file cannot be opened), "nodir" (no directory EventTuplePV), "notree" (no
\* tree in the directory) or "ok", with the entries of the tree.
BadFiles == {[state |-> st, entries |-> <<>>] : st \in {"zombie", "nodir", "notree"}}
GoodFile(entries) == [state |-> "ok", entries |-> entries]

\* The file opens and holds the tree: the branch variables are declared and
\* connected and the event loop starts.  The declarations give the variables
\* no value; each is written by GetEntry before the loop body reads it, and
\* the value it shows until then is the one it had.
OpenFile ==
  /\ pc = "file"
  /\ iFile <= Len(fileNames)
  /\ fileNames[iFile].state = "ok"
  /\ tree' = fileNames[iFile].entries
  /\ iEvent' = 1
  /\ pc' = "loop"
  /\ UNCHANGED <<fileVars, iTrack, branches, arrays, counters, sums, evt, outTree, prepVars>>

\* Variant: a file that cannot be used ends the function (return instead of
\* continue).
SkipFile_Return ==
  /\ pc = "file"
  /\ iFile <= Len(fileNames)
  /\ fileNames[iFile].state # "ok"
  /\ pc' = "done"
  /\ UNCHANGED <<fileVars, tree, iEvent, iTrack, branches, arrays, counters, sums, evt,
                 outTree, prepVars>>

\* The file cannot be opened, or lacks the directory or the tree: a message
\* is written and the file loop goes on to the next name.
SkipFile ==
  /\ pc = "file"
  /\ iFile <= Len(fileNames)
  /\ fileNames[iFile].state # "ok"
  /\ iFile' = iFile + 1
  /\ UNCHANGED <<fileNames, outFile, tree, pc, iEvent, iTrack, branches, arrays, counters,
                 sums, evt, outTree, prepVars>>

\* new TFile(..., "RECREATE"): nothing written, open.
NewOutFile == [written |-> <<>>, open |-> TRUE]

\* End of the file loop: outTree->Write() and outFile->Close().
Finalize ==
  /\ pc = "file"
  /\ ~(iFile <= Len(fileNames))
  /\ outFile' = [written |-> Append(outFile.written, outTree), open |-> FALSE]
  /\ pc' = "done"
  /\ UNCHANGED <<fileNames, iFile, tree, iEvent, iTrack, branches, arrays, counters, sums,
                 evt, outTree, prepVars>>

\* State of EventPlaneAnalysis before the file loop, the file names and pc
\* aside.
AnalysisStart ==
  /\ iFile = 1
  /\ outFile = NewOutFile
  /\ tree = <<>>
  /\ iEvent = 1
  /\ iTrack = 1
  /\ EVENTNUMBER = 0 /\ RUNNUMBER = 0 /\ nPVs = 0 /\ nBackTracks = 0 /\ nVeloTracks = 0
  /\ PVZ = 0
  /\ VELOTRACK_BIPCHI2 = [i \in 1..MaxTrk |-> 0]
  /\ VELOTRACK_ETA = [i \in 1..MaxTrk |-> 0]
  /\ VELOTRACK_ISBACKWARD = [i \in 1..MaxTrk |-> 0]
  /\ VELOTRACK_PHI = [i \in 1..MaxTrk |-> 0]
  /\ nPrimaryForTracks = 0 /\ nPrimaryBackTracks = 0
  /\ nPrimaryForTracks_1 = 0 /\ nPrimaryForTracks_2 = 0 /\ nPrimaryForTracks_3 = 0
  /\ Qx_back = ZeroLocals.Qx_back /\ Qy_back = ZeroLocals.Qy_back
  /\ Qx_for = ZeroLocals.Qx_for /\ Qy_for = ZeroLocals.Qy_for
  /\ Qx_back_wEta = ZeroLocals.Qx_back_wEta /\ Qy_back_wEta = ZeroLocals.Qy_back_wEta
  /\ Qx_for_wEta = ZeroLocals.Qx_for_wEta /\ Qy_for_wEta = ZeroLocals.Qy_for_wEta
  /\ evt = NewEvent
  /\ outTree = <<>>

\* The cut counters of the file preparation, by the name after "cut_".
CutNames ==
  {"nBackTracks", "nVeloTracks", "nPVs", "PVZ",
   "L0_BPVIPCHI2", "L0_BPVFDCHI2", "L0_BPVDIRA",
   "p_BPVIPCHI2", "pi_BPVIPCHI2", "p_PT", "pi_PT", "p_GHOSTPROB", "pi_GHOSTPROB"}

\* int cut_X = 0 for every counter.
ZeroCuts == [n \in CutNames |-> 0]

\* EventPlane* ep = nullptr: there is no object before the first GetEntry, and
\* nothing reads one; the value stands for the absent object.
NullEP == [RUNNUMBER |-> 0, EVENTNUMBER |-> 0, Psi1Full |-> 0]

\* Values an uninitialised double member may hold.
Indeterminate == {0, 1}

\* new Event() of the file preparation: the constructor sets EVENTNUMBER and
\* RUNNUMBER and leaves every other member uninitialised.  Psi1Full stands for
\* the angle and resolution members.
NewLambdaEvents == [EVENTNUMBER : {0}, RUNNUMBER : {0}, Psi1Full : Indeterminate]

\* State of the file preparation's candidate loop before it is set up, the
\* input tree aside.
MatchStart ==
  /\ iLambda = 0
  /\ totalLambdas = 0 /\ failedCuts = 0 /\ noMatch = 0 /\ saved = 0
  /\ cut = ZeroCuts
  /\ event = NullEP
  /\ LambdaEventPlaneTree = <<>>

\* The file preparation is not running.
PrepIdle ==
  /\ EPtree = <<>>
  /\ ppc = "idle"
  /\ iEP = 0
  /\ epIndexMap = <<>>
  /\ nWarnings = 0
  /\ ep = NullEP
  /\ DecayTree = <<>>
  /\ MatchStart

\* One input file: any of the unusable ones, or one with a tree of up to
\* MaxEvents entries.
Init ==
  /\ fileNames \in {<<f>> : f \in BadFiles \cup
                       {GoodFile(t) : t \in UNION {[1..n -> 1..Len(EventCatalogue)]
                                                     : n \in 0..MaxEvents}}}
  /\ pc = "file"
  /\ AnalysisStart
  /\ PrepIdle

Next ==
  \/ OpenFile
  \/ SkipFile
  \/ Finalize
  \/ GetEntry
  \/ EventSelection
  \/ ResetEvent
  \/ TrackStep
  \/ EndTrackLoop
  \/ Discard
  \/ Emit
  \/ Finish

Spec == Init /\ [][Next]_vars

\* ---------------------------------------------------- several input files
\* Largest number of input files.
MaxFiles == 3

\* Trees of the files of a run over several files: an empty one, one whose
\* event is filled into the output tree, one whose event fails the event
\* selection, and one with an event that fails the multiplicity requirement
\* followed by one that is filled.
FileTrees == {<<>>, <<1>>, <<9>>, <<2, 1>>}

InitFiles ==
  /\ fileNames \in UNION {[1..n -> BadFiles \cup {GoodFile(t) : t \in FileTrees}]
                           : n \in 0..MaxFiles}
  /\ pc = "file"
  /\ AnalysisStart
  /\ PrepIdle

SpecFiles == InitFiles /\ [][Next]_vars

\* --------------------------------- GlobalPolarizationAnalysis_FilePrep code
\* Bitwise exclusive or of two naturals.
RECURSIVE Xor(_, _)
Xor(a, b) ==
  IF a = 0 THEN b
  ELSE IF b = 0 THEN a
  ELSE (((a % 2) + (b % 2)) % 2) + 2 * Xor(a \div 2, b \div 2)

\* hash<pair<UInt_t, ULong64_t>>: hash(first) ^ (hash(second) << 1), std::hash
\* of an integer being the integer itself.  The shift is taken in a 64-bit
\* size_t; the event numbers of EPEventNumbers are far below 2^63, where it
\* would drop a bit.
Hash(key) == Xor(key[1], key[2] * 2)

\* Variant: keys are compared by their hash value alone, so that the first
\* entry of the key's bucket is taken for the key.
Find_ByHash(m, key) ==
  LET h == Hash(key) IN
  IF h \in DOMAIN m /\ Len(m[h]) > 0 THEN <<h, 1>> ELSE <<>>

\* unordered_map::find: the entry of the key's bucket whose key is equal, as
\* <<bucket, place>>, or <<>> for end().
Find(m, key) ==
  LET h == Hash(key) IN
  IF h \in DOMAIN m /\ \E i \in 1..Len(m[h]) : m[h][i].key = key
  THEN <<h, CHOOSE i \in 1..Len(m[h]) : m[h][i].key = key>>
  ELSE <<>>

\* it->second
Second(m, it) == m[it[1]][it[2]].val

\* unordered_map::size
Size(m) == Cardinality(UNION {{h} \X (1..Len(m[h])) : h \in DOMAIN m})

\* Variant: a key already present keeps its first value (insert, not assign).
Assign_KeepFirst(m, key, val) ==
  LET h == Hash(key) IN
  IF Find(m, key) # <<>>
  THEN m
  ELSE [b \in DOMAIN m \cup {h} |->
          IF b = h
          THEN (IF h \in DOMAIN m THEN m[h] ELSE <<>>) \o <<[key |-> key, val |-> val]>>
          ELSE m[b]]

\* epIndexMap[key] = val: the entry is overwritten when the key is present and
\* inserted into the key's bucket when it is not.
Assign(m, key, val) ==
  LET h == Hash(key)
      it == Find(m, key)
  IN  IF it # <<>>
      THEN [m EXCEPT ![it[1]][it[2]].val = val]
      ELSE [b \in DOMAIN m \cup {h} |->
              IF b = h
              THEN (IF h \in DOMAIN m THEN m[h] ELSE <<>>) \o <<[key |-> key, val |-> val]>>
              ELSE m[b]]

\* The event-plane records the index is built from.
EPRuns == {0, 1, 2}
EPEventNumbers == {0, 1}
EventPlaneRecords == [RUNNUMBER : EPRuns, EVENTNUMBER : EPEventNumbers]

\* One iteration of the index build loop.
IndexStep ==
  /\ ppc = "index"
  /\ iEP < Len(EPtree)
  /\ LET read == EPtree[iEP + 1]
         key == <<read.RUNNUMBER, read.EVENTNUMBER>>
     IN  /\ nWarnings' = IF Find(epIndexMap, key) # <<>> THEN nWarnings + 1 ELSE nWarnings
         /\ epIndexMap' = Assign(epIndexMap, key, iEP)
         /\ ep' = read
  /\ iEP' = iEP + 1
  /\ UNCHANGED <<EPtree, ppc, analysisVars, matchVars>>

\* End of the index build loop ("Indexed n EP events").
IndexDone ==
  /\ ppc = "index"
  /\ ~(iEP < Len(EPtree))
  /\ ppc' = "indexed"
  /\ UNCHANGED <<EPtree, iEP, epIndexMap, nWarnings, ep, analysisVars, matchVars>>

InitPrep ==
  /\ fileNames = <<>>
  /\ pc = "idle"
  /\ AnalysisStart
  /\ EPtree \in UNION {[1..n -> EventPlaneRecords] : n \in 0..MaxEP}
  /\ ppc = "index"
  /\ iEP = 0
  /\ epIndexMap = <<>>
  /\ nWarnings = 0
  /\ ep = NullEP
  /\ DecayTree = <<>>
  /\ MatchStart

NextPrep ==
  \/ IndexStep
  \/ IndexDone

SpecPrep == InitPrep /\ [][NextPrep]_vars

\* ------------------------------------------------------ the candidate loop
\* Largest number of candidates in the input file.
MaxLambdas == 2

\* The branch values of one DecayTree entry that the loop reads.  L0_BPVDIRA
\* is in ten-thousandths (0.9999 is 9999), the ghost probabilities in
\* hundredths (0.1 is 10), everything else in whole units.  Every entry has a
\* primary vertex, so that PVZ[0] is a value of the entry itself.
Cand(run, evn, nb, nv, pvs, pvz, fd, dira, pip, piip, ppt, pipt, pg, pig) ==
  [RUNNUMBER |-> run, EVENTNUMBER |-> evn,
   nBackTracks |-> nb, nVeloTracks |-> nv, nPVs |-> pvs, PVZ |-> pvz,
   L0_BPVFDCHI2 |-> fd, L0_BPVDIRA |-> dira,
   p_BPVIPCHI2 |-> pip, pi_BPVIPCHI2 |-> piip, p_PT |-> ppt, pi_PT |-> pipt,
   p_GHOSTPROB |-> pg, pi_GHOSTPROB |-> pig]

\* Candidates on and beside every threshold: three that pass all cuts (one of
\* them exactly on the twelve thresholds), one failing p_PT alone, one failing
\* all twelve, and two failing six each.
LambdaCatalogue ==
  << Cand(2, 0, 10, 15, 1, 100, 130, 9999, 25, 25, 500, 200, 10, 10),
     Cand(0, 1, 12, 20, 1, -100, 200, 10000, 30, 30, 600, 300, 0, 0),
     Cand(1, 1, 12, 20, 1, 0, 200, 10000, 30, 30, 600, 300, 0, 0),
     Cand(2, 0, 12, 20, 1, 0, 200, 10000, 30, 30, 499, 300, 0, 0),
     Cand(0, 1, 9, 14, 2, 101, 129, 9998, 24, 24, 499, 199, 11, 11),
     Cand(2, 1, 9, 20, 2, 0, 129, 10000, 24, 30, 499, 300, 11, 0),
     Cand(0, 0, 12, 14, 1, -101, 200, 9998, 30, 24, 600, 199, 0, 11) >>

\* tree->GetEntry(i): the candidate the loop body works on.
Lambda(i) == LambdaCatalogue[DecayTree[i + 1]]

\* The conditions of the cut block, by counter.  cut_L0_BPVIPCHI2 is declared
\* and has no condition.
Fails(c) ==
  [nBackTracks |-> c.nBackTracks < 10,
   nVeloTracks |-> c.nVeloTracks < 15,
   nPVs |-> c.nPVs # 1,
   PVZ |-> (c.PVZ < -100 \/ c.PVZ > 100),
   L0_BPVIPCHI2 |-> FALSE,
   L0_BPVFDCHI2 |-> c.L0_BPVFDCHI2 < 130,
   L0_BPVDIRA |-> c.L0_BPVDIRA < 9999,
   p_BPVIPCHI2 |-> c.p_BPVIPCHI2 < 25,
   pi_BPVIPCHI2 |-> c.pi_BPVIPCHI2 < 25,
   p_PT |-> c.p_PT < 500,
   pi_PT |-> c.pi_PT < 200,
   p_GHOSTPROB |-> c.p_GHOSTPROB > 10,
   pi_GHOSTPROB |-> c.pi_GHOSTPROB > 10]

\* The order in which the cut block tests its conditions.
CutOrder ==
  << "nBackTracks", "nVeloTracks", "nPVs", "PVZ", "L0_BPVFDCHI2", "L0_BPVDIRA",
     "p_BPVIPCHI2", "pi_BPVIPCHI2", "p_PT", "pi_PT", "p_GHOSTPROB", "pi_GHOSTPROB" >>

\* Variant: the conditions form an else-if chain, so that only the first
\* failing cut is counted.
ApplyCuts_FirstOnly(k, c) ==
  [n \in CutNames |->
     IF \E q \in 1..Len(CutOrder) :
          /\ CutOrder[q] = n
          /\ Fails(c)[n]
          /\ \A r \in 1..(q - 1) : ~Fails(c)[CutOrder[r]]
     THEN k[n] + 1 ELSE k[n]]

\* The cut block's effect on the counters: each failing condition increments
\* its own counter.
ApplyCuts(k, c) == [n \in CutNames |-> IF Fails(c)[n] THEN k[n] + 1 ELSE k[n]]

\* bool fail after the cut block.
Fail(c) == \E q \in 1..Len(CutOrder) : Fails(c)[CutOrder[q]]

\* The output file and tree are created and the candidate file is opened; the
\* counters are set to zero.
Setup ==
  /\ ppc = "indexed"
  /\ event' \in NewLambdaEvents
  /\ LambdaEventPlaneTree' = <<>>
  /\ totalLambdas' = 0 /\ failedCuts' = 0 /\ noMatch' = 0 /\ saved' = 0
  /\ cut' = ZeroCuts
  /\ iLambda' = 0
  /\ ppc' = "lambda"
  /\ UNCHANGED <<EPtree, iEP, epIndexMap, nWarnings, ep, DecayTree, analysisVars>>

\* The output file cannot be created, or the candidate file, its directory
\* or its tree is missing: the function returns.
SetupFails ==
  /\ ppc = "indexed"
  /\ ppc' = "returned"
  /\ UNCHANGED <<EPtree, iEP, epIndexMap, nWarnings, ep, matchVars, analysisVars>>

\* Variant: the continue after failedCuts++ is missing, and a failing
\* candidate goes on to the lookup.
CutStep_NoContinue ==
  /\ ppc = "lambda"
  /\ iLambda < Len(DecayTree)
  /\ LET c == Lambda(iLambda) IN
       /\ totalLambdas' = totalLambdas + 1
       /\ cut' = ApplyCuts(cut, c)
       /\ failedCuts' = IF Fail(c) THEN failedCuts + 1 ELSE failedCuts
       /\ ppc' = "match" /\ iLambda' = iLambda
  /\ UNCHANGED <<EPtree, iEP, epIndexMap, nWarnings, ep, DecayTree, noMatch, saved,
                 event, LambdaEventPlaneTree, analysisVars>>

\* The first half of the loop body: the entry is read and counted, the cuts
\* are applied, and a failing candidate ends the iteration.
CutStep ==
  /\ ppc = "lambda"
  /\ iLambda < Len(DecayTree)
  /\ LET c == Lambda(iLambda) IN
       /\ totalLambdas' = totalLambdas + 1
       /\ cut' = ApplyCuts(cut, c)
       /\ IF Fail(c)
          THEN failedCuts' = failedCuts + 1 /\ ppc' = "lambda" /\ iLambda' = iLambda + 1
          ELSE failedCuts' = failedCuts /\ ppc' = "match" /\ iLambda' = iLambda
  /\ UNCHANGED <<EPtree, iEP, epIndexMap, nWarnings, ep, DecayTree, noMatch, saved,
                 event, LambdaEventPlaneTree, analysisVars>>

\* The key of the candidate the loop body works on.
LambdaKey == <<Lambda(iLambda).RUNNUMBER, Lambda(iLambda).EVENTNUMBER>>

\* Variant: the lookup is epIndexMap[key], which inserts a missing key with
\* the value 0.
NoMatchStep_Subscript ==
  /\ ppc = "match"
  /\ Find(epIndexMap, LambdaKey) = <<>>
  /\ epIndexMap' = Assign(epIndexMap, LambdaKey, 0)
  /\ noMatch' = noMatch + 1
  /\ ppc' = "lambda"
  /\ iLambda' = iLambda + 1
  /\ UNCHANGED <<EPtree, iEP, nWarnings, ep, DecayTree, totalLambdas, failedCuts,
                 saved, cut, event, LambdaEventPlaneTree, analysisVars>>

\* The lookup finds no entry: the candidate is reported and counted.
NoMatchStep ==
  /\ ppc = "match"
  /\ Find(epIndexMap, LambdaKey) = <<>>
  /\ noMatch' = noMatch + 1
  /\ ppc' = "lambda"
  /\ iLambda' = iLambda + 1
  /\ UNCHANGED <<EPtree, iEP, epIndexMap, nWarnings, ep, DecayTree, totalLambdas,
                 failedCuts, saved, cut, event, LambdaEventPlaneTree, analysisVars>>

\* Variant: the candidate is counted as saved and the tree is not filled.
SaveStep_NoFill ==
  /\ ppc = "match"
  /\ Find(epIndexMap, LambdaKey) # <<>>
  /\ saved' = saved + 1
  /\ ep' = EPtree[Second(epIndexMap, Find(epIndexMap, LambdaKey)) + 1]
  /\ ppc' = "lambda"
  /\ iLambda' = iLambda + 1
  /\ UNCHANGED <<EPtree, iEP, epIndexMap, nWarnings, DecayTree, totalLambdas,
                 failedCuts, noMatch, cut, event, LambdaEventPlaneTree, analysisVars>>

\* The lookup finds an entry: the event-plane record at its position is read
\* into ep, nothing is copied into the output objects, and outTree->Fill()
\* appends a copy of the Event object as it is.
SaveStep ==
  /\ ppc = "match"
  /\ Find(epIndexMap, LambdaKey) # <<>>
  /\ saved' = saved + 1
  /\ ep' = EPtree[Second(epIndexMap, Find(epIndexMap, LambdaKey)) + 1]
  /\ LambdaEventPlaneTree' = Append(LambdaEventPlaneTree, event)
  /\ ppc' = "lambda"
  /\ iLambda' = iLambda + 1
  /\ UNCHANGED <<EPtree, iEP, epIndexMap, nWarnings, DecayTree, totalLambdas,
                 failedCuts, noMatch, cut, event, analysisVars>>

\* End of the candidate loop: the summary is printed and the objects deleted.
LoopDone ==
  /\ ppc = "lambda"
  /\ ~(iLambda < Len(DecayTree))
  /\ ppc' = "done"
  /\ UNCHANGED <<EPtree, iEP, epIndexMap, nWarnings, ep, matchVars, analysisVars>>

\* The keys of the event-plane records of the matching runs: (0, 1) and (2, 0)
\* have the same hash value, (1, 1) another one.
MatchKeys == {<<0, 1>>, <<2, 0>>, <<1, 1>>}

\* Event-plane trees whose records carry distinct angles.
MatchTrees ==
  UNION {{[q \in 1..n |-> [RUNNUMBER |-> k[q][1], EVENTNUMBER |-> k[q][2],
                           Psi1Full |-> 10 + q]] : k \in [1..n -> MatchKeys]}
         : n \in 0..MaxEP}

InitMatch ==
  /\ fileNames = <<>>
  /\ pc = "idle"
  /\ AnalysisStart
  /\ EPtree \in MatchTrees
  /\ ppc = "index"
  /\ iEP = 0
  /\ epIndexMap = <<>>
  /\ nWarnings = 0
  /\ ep = NullEP
  /\ DecayTree \in UNION {[1..n -> 1..Len(LambdaCatalogue)] : n \in 0..MaxLambdas}
  /\ MatchStart

NextMatch ==
  \/ IndexStep
  \/ IndexDone
  \/ Setup
  \/ SetupFails
  \/ CutStep
  \/ NoMatchStep
  \/ SaveStep
  \/ LoopDone

SpecMatch == InitMatch /\ [][NextMatch]_vars

\* =================================================================== claims
\* What the claims speak of, written from their own words: the stored track
\* of an entry, its transformed pseudorapidity and angle, the quality cut and
\* the regions (-1 backward, 0..2 forward bins 1..3, 3 forward inclusive).
StoredTrack(i) == Entry(iEvent).tracks[i]
TransformedEta(t) == IF t.back = 1 THEN 0 - t.eta ELSE t.eta
TransformedPhi(t) == IF t.back = 1 THEN t.phi + 4 ELSE t.phi
QualityPassing(t) == t.bip <= 15
InRegion(R, e) ==
  CASE R = -1 -> e < -5
    [] R = 0 -> 5 < e /\ e <= 25
    [] R = 1 -> 25 < e /\ e <= 40
    [] R = 2 -> 40 < e /\ e <= 60
    [] R = 3 -> 5 < e /\ e <= 60

\* The track is accumulated into region R.
Contributes(R, t) == QualityPassing(t) /\ InRegion(R, TransformedEta(t))

\* Number of the first n tracks of an event that satisfy P.
NumTracks(ev, n, P(_)) == Cardinality({i \in 1..n : P(ev.tracks[i])})

\* In the event loop body of the current entry (between GetEntry and its end).
InEvent == pc \in {"select", "reset", "track", "gate"}

\* ---- C1
\* C1: an event is admitted to the track loop if and only if nPVs = 1,
\* nBackTracks >= 10, -100 <= PVZ[0] <= 100 and nVeloTracks >= 15; an event
\* failing any of the four cuts goes straight to the next entry and no record
\* is ever filled for it.
MeetsEventCuts(e) ==
  /\ e.nPVs = 1
  /\ e.nBackTracks >= 10
  /\ -100 <= e.PVZ /\ e.PVZ <= 100
  /\ e.nVeloTracks >= 15

C1_EventGate ==
  [][/\ (pc = "select" /\ pc' # "select") =>
          IF MeetsEventCuts(Entry(iEvent))
          THEN pc' = "reset" /\ iEvent' = iEvent
          ELSE pc' = "loop" /\ iEvent' = iEvent + 1 /\ outTree' = outTree
     /\ (pc' = "track" /\ pc # "track") => MeetsEventCuts(Entry(iEvent))
     /\ (outTree' # outTree) => MeetsEventCuts(Entry(iEvent))]_vars

\* A first entry failing only the nBackTracks cut was skipped with no record,
\* and the second entry, on the thresholds, is in the track loop.
C1_Witness ==
  /\ Len(tree) = 2 /\ iEvent = 2 /\ pc = "track" /\ outTree = <<>>
  /\ Entry(1).nPVs = 1 /\ Entry(1).nBackTracks = 9 /\ Entry(1).PVZ = 0
  /\ Entry(1).nVeloTracks >= 15
  /\ Entry(2).nBackTracks = 10 /\ Entry(2).PVZ = 100 /\ Entry(2).nVeloTracks >= 15

\* ---- C2
\* C2: a quality-passing track increments forward-bin counter 1 exactly when
\* its transformed eta is in (0.5, 2.5], counter 2 exactly when in (2.5, 4.0],
\* counter 3 exactly when in (4.0, 6.0], so at most one of the three.
TrackProcessed == pc = "track" /\ iTrack <= nVeloTracks /\ iTrack' = iTrack + 1

C2_BinBoundaries ==
  [][(TrackProcessed /\ QualityPassing(StoredTrack(iTrack))) =>
       LET e == TransformedEta(StoredTrack(iTrack))
           d1 == nPrimaryForTracks_1' - nPrimaryForTracks_1
           d2 == nPrimaryForTracks_2' - nPrimaryForTracks_2
           d3 == nPrimaryForTracks_3' - nPrimaryForTracks_3
       IN  /\ d1 = IF 5 < e /\ e <= 25 THEN 1 ELSE 0
           /\ d2 = IF 25 < e /\ e <= 40 THEN 1 ELSE 0
           /\ d3 = IF 40 < e /\ e <= 60 THEN 1 ELSE 0
           /\ e = 25 => d1 = 1 /\ d2 = 0
           /\ e = 40 => d2 = 1 /\ d3 = 0
           /\ e = 5 => d1 + d2 + d3 = 0
           /\ e = 60 => d3 = 1
           /\ d1 + d2 + d3 <= 1]_vars

\* The track loop is over for an event holding tracks at exactly 0.5, 2.5,
\* 4.0 and 6.0, and every forward bin has counted.
C2_Witness ==
  /\ pc = "gate"
  /\ \A b \in {5, 25, 40, 60} :
       \E i \in 1..nVeloTracks :
         QualityPassing(StoredTrack(i)) /\ TransformedEta(StoredTrack(i)) = b
  /\ nPrimaryForTracks_1 >= 5 /\ nPrimaryForTracks_2 >= 5 /\ nPrimaryForTracks_3 >= 5

\* ---- C3
\* C3: at the end of the track loop the union-forward counter
\* nPrimaryForTracks equals the number of (quality-passing) tracks whose
\* transformed eta is in (0.5, 6.0].
InForwardUnion(t) == QualityPassing(t) /\ InRegion(3, TransformedEta(t))

C3_UnionForwardCounter ==
  pc = "gate" => nPrimaryForTracks = NumTracks(Entry(iEvent), nVeloTracks, InForwardUnion)

\* ---- C4
\* C4: an event that passed the event gate appends exactly one record when
\* the forward, backward and three forward-bin counters are all >= 5 after the
\* track loop and none otherwise; no other step changes the output tree.
AllCountersAtLeast5 ==
  /\ nPrimaryForTracks >= 5 /\ nPrimaryBackTracks >= 5
  /\ nPrimaryForTracks_1 >= 5 /\ nPrimaryForTracks_2 >= 5 /\ nPrimaryForTracks_3 >= 5

C4_MultiplicityGate ==
  [][/\ (pc = "gate" /\ pc' # "gate") =>
          /\ Len(outTree') = Len(outTree) + (IF AllCountersAtLeast5 THEN 1 ELSE 0)
          /\ SubSeq(outTree', 1, Len(outTree)) = outTree
     /\ pc # "gate" => outTree' = outTree]_vars

\* A first event with forward-bin-2 count 4 (the others 5) left no record; a
\* second with count 5 left one.
C4_Witness ==
  /\ Len(tree) = 2 /\ iEvent = 3 /\ pc = "loop"
  /\ MeetsEventCuts(Entry(1))
  /\ NumTracks(Entry(1), Len(Entry(1).tracks), LAMBDA t : Contributes(1, t)) = 4
  /\ \A R \in {-1, 0, 2} :
       NumTracks(Entry(1), Len(Entry(1).tracks), LAMBDA t : Contributes(R, t)) >= 5
  /\ Len(outTree) = 1
  /\ outTree[1].outEVENTNUMBER = tree[2]
  /\ outTree[1].out_Qmulti[1] = 5

\* ---- C5
\* Sum of F over the quality-passing tracks of an event whose transformed eta
\* lies in region R.
RECURSIVE SumVals(_, _)
SumVals(v, n) == IF n = 0 THEN <<0, 0>> ELSE Add(SumVals(v, n - 1), v[n])

TrackSum(ev, R, F(_)) ==
  SumVals([i \in 1..Len(ev.tracks) |->
             IF QualityPassing(ev.tracks[i]) /\ InRegion(R, TransformedEta(ev.tracks[i]))
             THEN F(ev.tracks[i])
             ELSE <<0, 0>>],
          Len(ev.tracks))

\* The catalogue event a record was filled from.
EventOf(r) == EventCatalogue[r.outEVENTNUMBER]

\* C5: in every emitted record, for every region and harmonic n in {1, 2},
\* the unweighted cos-sum and sin-sum are the sums of cos(n*phi) and
\* sin(n*phi) over the event's tracks with significance <= 1.5 whose
\* transformed eta lies in the region, phi taken after the backward flip.
\* (Stated at the head of the event loop, where every Fill leads.)
C5_HarmonicSums ==
  pc = "loop" =>
  \A k \in 1..Len(outTree) :
    LET r == outTree[k]
        ev == EventOf(r)
    IN  \A n \in 1..2 :
          /\ r.outQx_back[n - 1] = TrackSum(ev, -1, LAMBDA t : CosE(n * TransformedPhi(t)))
          /\ r.outQy_back[n - 1] = TrackSum(ev, -1, LAMBDA t : SinE(n * TransformedPhi(t)))
          /\ \A j \in 0..3 :
               /\ r.outQx_for[n - 1][j] = TrackSum(ev, j, LAMBDA t : CosE(n * TransformedPhi(t)))
               /\ r.outQy_for[n - 1][j] = TrackSum(ev, j, LAMBDA t : SinE(n * TransformedPhi(t)))

\* A record was emitted for an event holding a track over the significance
\* cut inside forward bin 2 and a track exactly on the cut in the backward
\* region, and its sums are not all zero.
C5_Witness ==
  /\ Len(outTree) >= 1
  /\ \E i \in 1..Len(EventOf(outTree[1]).tracks) :
       LET t == EventOf(outTree[1]).tracks[i]
       IN  t.bip > 15 /\ InRegion(1, TransformedEta(t))
  /\ \E i \in 1..Len(EventOf(outTree[1]).tracks) :
       LET t == EventOf(outTree[1]).tracks[i]
       IN  t.bip = 15 /\ InRegion(-1, TransformedEta(t))
  /\ outTree[1].outQy_back[1] # <<0, 0>>
  /\ outTree[1].outQy_for[0][1] # <<0, 0>>

\* ---- C6
\* C6: a quality-passing track flagged backward has, once its iteration is
\* over, eta negated and phi increased by pi exactly once with no modulo;
\* every other track of the entry, and every track not yet reached, holds the
\* stored eta and phi; this for every entry of the tree.
C6_FlipOnce ==
  InEvent =>
    \A i \in 1..nVeloTracks :
      LET t == StoredTrack(i)
          reached == pc \in {"track", "gate"} /\ i < iTrack
      IN  IF reached /\ QualityPassing(t) /\ t.back = 1
          THEN VELOTRACK_ETA[i] = 0 - t.eta /\ VELOTRACK_PHI[i] = t.phi + 4
          ELSE VELOTRACK_ETA[i] = t.eta /\ VELOTRACK_PHI[i] = t.phi

\* The track loop of a second admitted entry is over, the first entry having
\* flipped its own backward tracks, and a flipped angle lies beyond 2*pi.
C6_Witness ==
  /\ iEvent = 2 /\ pc = "gate"
  /\ MeetsEventCuts(Entry(1))
  /\ \E i \in 1..nVeloTracks :
       /\ StoredTrack(i).back = 1 /\ QualityPassing(StoredTrack(i))
       /\ VELOTRACK_PHI[i] >= 8
       /\ VELOTRACK_ETA[i] < 0
  /\ \E i \in 1..nVeloTracks : StoredTrack(i).back = 1 /\ ~QualityPassing(StoredTrack(i))

\* ---- C7
\* C7: after the track loop each per-region counter equals the number of
\* tracks that contributed to the region's sums: the backward counter the
\* number of quality-passing tracks with transformed eta < -0.5, each
\* forward-bin counter the number of tracks accumulated into its bin.
C7_CountersMatchContributors ==
  pc = "gate" =>
    /\ nPrimaryBackTracks =
         NumTracks(Entry(iEvent), nVeloTracks, LAMBDA t : Contributes(-1, t))
    /\ nPrimaryForTracks_1 =
         NumTracks(Entry(iEvent), nVeloTracks, LAMBDA t : Contributes(0, t))
    /\ nPrimaryForTracks_2 =
         NumTracks(Entry(iEvent), nVeloTracks, LAMBDA t : Contributes(1, t))
    /\ nPrimaryForTracks_3 =
         NumTracks(Entry(iEvent), nVeloTracks, LAMBDA t : Contributes(2, t))

\* ---- C8
\* The track loop run on an event alone, from zeroed sums and counters.
RECURSIVE LoopAlone(_, _)
LoopAlone(ev, n) ==
  IF n = 0
  THEN ZeroLocals
  ELSE LET before == LoopAlone(ev, n - 1)
       IN  \* the test has the shorter loop evaluated first
           IF before.nPrimaryForTracks >= 0
           THEN TrackBody(before, ev.tracks[n].bip, ev.tracks[n].eta,
                          ev.tracks[n].back, ev.tracks[n].phi)
           ELSE before

AllZero ==
  /\ \A c \in {nPrimaryForTracks, nPrimaryBackTracks, nPrimaryForTracks_1,
               nPrimaryForTracks_2, nPrimaryForTracks_3} : c = 0
  /\ \A i \in 0..1 :
       /\ Qx_back[i] = <<0, 0>> /\ Qy_back[i] = <<0, 0>>
       /\ Qx_back_wEta[i] = <<0, 0>> /\ Qy_back_wEta[i] = <<0, 0>>
       /\ \A j \in 0..3 :
            /\ Qx_for[i][j] = <<0, 0>> /\ Qy_for[i][j] = <<0, 0>>
            /\ Qx_for_wEta[i][j] = <<0, 0>> /\ Qy_for_wEta[i][j] = <<0, 0>>

\* C8: every event enters its track loop with all sums and counters zero,
\* and the sums and counters of every emitted record are those the event
\* yields when processed alone, whatever entries came before it.
C8_ResetPerEvent ==
  /\ (pc = "track" /\ iTrack = 1) => AllZero
  /\ pc = "loop" =>
     \A k \in 1..Len(outTree) :
       LET r == outTree[k]
           s == LoopAlone(EventOf(r), Len(EventOf(r).tracks))
       IN  /\ r.out_Qmulti = [q \in 0..3 |-> CASE q = 0 -> s.nPrimaryForTracks_1
                                               [] q = 1 -> s.nPrimaryForTracks_2
                                               [] q = 2 -> s.nPrimaryForTracks_3
                                               [] q = 3 -> s.nPrimaryBackTracks]
           /\ r.outQx_back = s.Qx_back /\ r.outQy_back = s.Qy_back
           /\ r.outQx_for = s.Qx_for /\ r.outQy_for = s.Qy_for
           /\ r.outQx_back_wEta = s.Qx_back_wEta /\ r.outQy_back_wEta = s.Qy_back_wEta
           /\ r.outQx_for_wEta = s.Qx_for_wEta /\ r.outQy_for_wEta = s.Qy_for_wEta

\* A record was emitted for the second entry after a first, different entry
\* that went through its track loop and was discarded.
C8_Witness ==
  /\ Len(outTree) = 1 /\ Len(tree) = 2 /\ iEvent = 3 /\ pc = "loop"
  /\ outTree[1].outEVENTNUMBER = tree[2] /\ tree[1] # tree[2]
  /\ MeetsEventCuts(Entry(1))
  /\ outTree[1].out_Qmulti = [q \in 0..3 |-> 5]

\* ---- C9
\* C9: in every emitted record the n = 2 eta-weighted sums of the backward
\* region and of the four forward slots are zero, and the n = 1 eta-weighted
\* sums are the sums of eta*cos(phi) and eta*sin(phi) over the tracks
\* contributing to the region, eta being the transformed pseudorapidity.
\* (Stated at the head of the event loop, where every Fill leads.)
C9_EtaWeightedFirstHarmonicOnly ==
  pc = "loop" =>
  \A k \in 1..Len(outTree) :
    LET r == outTree[k]
        ev == EventOf(r)
        wcos(t) == Scale(TransformedEta(t), CosE(TransformedPhi(t)))
        wsin(t) == Scale(TransformedEta(t), SinE(TransformedPhi(t)))
    IN  /\ r.outQx_back_wEta[1] = <<0, 0>> /\ r.outQy_back_wEta[1] = <<0, 0>>
        /\ r.outQx_back_wEta[0] = TrackSum(ev, -1, wcos)
        /\ r.outQy_back_wEta[0] = TrackSum(ev, -1, wsin)
        /\ \A j \in 0..3 :
             /\ r.outQx_for_wEta[1][j] = <<0, 0>> /\ r.outQy_for_wEta[1][j] = <<0, 0>>
             /\ r.outQx_for_wEta[0][j] = TrackSum(ev, j, wcos)
             /\ r.outQy_for_wEta[0][j] = TrackSum(ev, j, wsin)

\* A record was emitted whose n = 1 eta-weighted sums are non-zero in the
\* backward region and in forward bin 1 while its unweighted n = 2 backward
\* sum is non-zero too.
C9_Witness ==
  /\ Len(outTree) >= 1
  /\ outTree[1].outQx_back_wEta[0] # <<0, 0>>
  /\ outTree[1].outQx_for_wEta[0][0] # <<0, 0>>
  /\ outTree[1].outQy_back[1] # <<0, 0>>

\* ---- C10
EPKey(r) == <<r.RUNNUMBER, r.EVENTNUMBER>>
\* Positions (from 0) of the first n records of the tree that carry the key.
PositionsOf(key, n) == {q \in 0..(n - 1) : EPKey(EPtree[q + 1]) = key}
Largest(S) == CHOOSE x \in S : \A y \in S : y <= x

\* C10: after any number of index build iterations, looking a key up gives
\* the position of the last record read so far that carries it (nothing when
\* none does), and the duplicate warnings number the records read minus the
\* distinct keys among them.
C10_LastWriteWins ==
  ppc \in {"index", "indexed"} =>
    /\ \A key \in EPRuns \X EPEventNumbers :
         LET it == Find(epIndexMap, key) IN
         IF PositionsOf(key, iEP) = {}
         THEN it = <<>>
         ELSE it # <<>> /\ Second(epIndexMap, it) = Largest(PositionsOf(key, iEP))
    /\ nWarnings = iEP - Cardinality({EPKey(EPtree[q]) : q \in 1..iEP})
    /\ Size(epIndexMap) = Cardinality({EPKey(EPtree[q]) : q \in 1..iEP})

\* Two records with key (1, 1) were indexed: one warning, and the key leads
\* to the second position.
C10_Witness ==
  /\ ppc = "indexed" /\ Len(EPtree) = 2
  /\ EPKey(EPtree[1]) = <<1, 1>> /\ EPKey(EPtree[2]) = <<1, 1>>
  /\ nWarnings = 1
  /\ Second(epIndexMap, Find(epIndexMap, <<1, 1>>)) = 1
  /\ Size(epIndexMap) = 1

\* ------------------------------------------------------------------- C11
\* The twelve cuts, by the name of their counter, and what failing one means
\* (the conditions of the cut-flow table).
TwelveCuts == CutNames \ {"L0_BPVIPCHI2"}
FailsCut(n, c) ==
  CASE n = "nBackTracks" -> c.nBackTracks < 10
    [] n = "nVeloTracks" -> c.nVeloTracks < 15
    [] n = "nPVs" -> c.nPVs # 1
    [] n = "PVZ" -> ~(c.PVZ >= -100 /\ c.PVZ <= 100)
    [] n = "L0_BPVFDCHI2" -> c.L0_BPVFDCHI2 < 130
    [] n = "L0_BPVDIRA" -> c.L0_BPVDIRA < 9999
    [] n = "p_BPVIPCHI2" -> c.p_BPVIPCHI2 < 25
    [] n = "pi_BPVIPCHI2" -> c.pi_BPVIPCHI2 < 25
    [] n = "p_PT" -> c.p_PT < 500
    [] n = "pi_PT" -> c.pi_PT < 200
    [] n = "p_GHOSTPROB" -> c.p_GHOSTPROB > 10
    [] n = "pi_GHOSTPROB" -> c.pi_GHOSTPROB > 10
FailsSomeCut(c) == \E n \in TwelveCuts : FailsCut(n, c)

\* The loop is about to read candidate iLambda.
AtCandidate == ppc = "lambda" /\ iLambda < Len(DecayTree)

\* C11: the step that processes a candidate failing some cut increments the
\* counter of every cut it fails and failedCuts, ends the iteration without
\* reaching the lookup, and leaves noMatch, saved and the output tree as they
\* were; the lookup is only ever reached with a candidate that fails no cut.
C11_FailingCandidate ==
  [][/\ (AtCandidate /\ FailsSomeCut(Lambda(iLambda))) =>
          /\ \A n \in TwelveCuts :
               FailsCut(n, Lambda(iLambda)) => cut'[n] = cut[n] + 1
          /\ failedCuts' = failedCuts + 1
          /\ ppc' = "lambda" /\ iLambda' = iLambda + 1
          /\ noMatch' = noMatch /\ saved' = saved
          /\ LambdaEventPlaneTree' = LambdaEventPlaneTree
     /\ ppc' = "match" => ~FailsSomeCut(Lambda(iLambda'))]_vars

\* A candidate failing p_PT < 500 alone, whose key is in the index, has been
\* processed: it is counted under cut_p_PT and failedCuts and nowhere else.
C11_Witness ==
  /\ ppc = "lambda" /\ iLambda = 1
  /\ Lambda(0).p_PT = 499
  /\ cut.p_PT = 1 /\ cut.pi_PT = 0
  /\ failedCuts = 1 /\ noMatch = 0 /\ saved = 0
  /\ Find(epIndexMap, <<Lambda(0).RUNNUMBER, Lambda(0).EVENTNUMBER>>) # <<>>

\* ------------------------------------------------------------------- C12
\* The candidates processed so far that passed all twelve cuts.
PassedSoFar == {q \in 0..(iLambda - 1) : ~FailsSomeCut(Lambda(q))}

\* C12: between two candidates and at the end of the loop, totalLambdas =
\* failedCuts + noMatch + saved, noMatch + saved is the number of processed
\* candidates that passed all cuts, and saved is the number of records in
\* the output tree.
C12_RunningTotals ==
  ppc \in {"lambda", "done"} =>
    /\ totalLambdas = iLambda
    /\ totalLambdas = failedCuts + noMatch + saved
    /\ noMatch + saved = Cardinality(PassedSoFar)
    /\ saved = Len(LambdaEventPlaneTree)

\* Two candidates have been processed, one failing a cut and one saved.
C12_Witness ==
  /\ ppc = "done"
  /\ totalLambdas = 2 /\ failedCuts = 1 /\ noMatch = 0 /\ saved = 1
  /\ Len(LambdaEventPlaneTree) = 1

\* ------------------------------------------------------------------- C13
\* The processed candidates that fail cut n, and those failing some cut.
FailedCut(n) == {q \in 0..(iLambda - 1) : FailsCut(n, Lambda(q))}
FailedAny == {q \in 0..(iLambda - 1) : FailsSomeCut(Lambda(q))}

SumOfCutCounters ==
  cut.nBackTracks + cut.nVeloTracks + cut.nPVs + cut.PVZ
    + cut.L0_BPVFDCHI2 + cut.L0_BPVDIRA + cut.p_BPVIPCHI2 + cut.pi_BPVIPCHI2
    + cut.p_PT + cut.pi_PT + cut.p_GHOSTPROB + cut.pi_GHOSTPROB

\* C13: each of the twelve cut counters is the number of processed candidates
\* that fail that cut, whatever the other cuts say of them, failedCuts is the
\* number of processed candidates failing at least one cut, and so every cut
\* counter <= failedCuts <= the sum of the twelve counters.
C13_CutCounters ==
  ppc \in {"lambda", "match", "done"} =>
    /\ \A n \in TwelveCuts : cut[n] = Cardinality(FailedCut(n))
    /\ failedCuts = Cardinality(FailedAny)
    /\ \A n \in TwelveCuts : cut[n] <= failedCuts
    /\ failedCuts <= SumOfCutCounters

\* A candidate failing all twelve cuts and one failing six of them have been
\* processed: twelve and six counters moved, failedCuts moved twice.
C13_Witness ==
  /\ ppc = "lambda" /\ iLambda = 2
  /\ Cardinality({n \in TwelveCuts : FailsCut(n, Lambda(0))}) = 12
  /\ Cardinality({n \in TwelveCuts : FailsCut(n, Lambda(1))}) = 6
  /\ failedCuts = 2
  /\ cut.nBackTracks = 2 /\ cut.nVeloTracks = 1
  /\ SumOfCutCounters = 18

\* ------------------------------------------------------------------- C14
\* The event-plane record the index holds for a key: the last one in the tree.
MatchedRecord(key) == EPtree[Largest(PositionsOf(key, Len(EPtree))) + 1]

\* C14: the record appended for a matched candidate carries the candidate's
\* run and event number and the angle of the event-plane record at the
\* looked-up position.
C14_MergedRecord ==
  [][Len(LambdaEventPlaneTree') = Len(LambdaEventPlaneTree) + 1 =>
       LET r == LambdaEventPlaneTree'[Len(LambdaEventPlaneTree')] IN
         /\ r.RUNNUMBER = LambdaKey[1]
         /\ r.EVENTNUMBER = LambdaKey[2]
         /\ r.Psi1Full = MatchedRecord(LambdaKey).Psi1Full]_vars

\* ------------------------------------------------------------------- C16
\* What the index holds: its keys, each with its position.
IndexContent(m) == {<<m[h][q].key, m[h][q].val>> : <<h, q>> \in
                      UNION {{b} \X (1..Len(m[b])) : b \in DOMAIN m}}

\* C16: no step taken after the index build loop has finished changes the
\* keys of the index or the position of any key; in particular the lookup of
\* a missing key leaves the index as it was.
C16_IndexReadOnly ==
  [][ppc # "index" => IndexContent(epIndexMap') = IndexContent(epIndexMap)]_vars

\* The loop has ended over a non-empty index after one candidate was saved and
\* one was looked up and not found.
C16_Witness ==
  /\ ppc = "done"
  /\ iLambda = 2 /\ saved = 1 /\ noMatch = 1
  /\ Size(epIndexMap) >= 2

\* ------------------------------------------------------------------- C17
\* Some event-plane record has the candidate's run number and event number.
HasEqualKey(key) ==
  \E q \in 1..Len(EPtree) :
    EPtree[q].RUNNUMBER = key[1] /\ EPtree[q].EVENTNUMBER = key[2]

\* C17: the lookup step of a surviving candidate saves it exactly when some
\* indexed event-plane record has its run number and its event number, the
\* record read at the returned position then has that very pair, and a
\* candidate without an equal key is counted in noMatch, also when a record
\* with the same hash value is indexed.
C17_MatchByEqualKey ==
  [][ppc = "match" =>
       /\ (saved' = saved + 1) <=> HasEqualKey(LambdaKey)
       /\ HasEqualKey(LambdaKey) =>
            /\ EPKey(ep') = LambdaKey
            /\ noMatch' = noMatch
       /\ ~HasEqualKey(LambdaKey) =>
            /\ noMatch' = noMatch + 1
            /\ saved' = saved]_vars

\* A surviving candidate was counted as unmatched although the index holds a
\* record whose key has the same hash value as the candidate's.
C17_Witness ==
  /\ ppc = "lambda" /\ iLambda = 1 /\ noMatch = 1 /\ saved = 0
  /\ ~HasEqualKey(<<Lambda(0).RUNNUMBER, Lambda(0).EVENTNUMBER>>)
  /\ \E q \in 1..Len(EPtree) :
       Hash(EPKey(EPtree[q])) = Hash(<<Lambda(0).RUNNUMBER, Lambda(0).EVENTNUMBER>>)

\* ------------------------------------------------------------------- C15
\* An entry of an input tree that the run fills into the output tree: it
\* meets the event cuts and its track loop ends with five counters >= 5.
WouldFill(k) ==
  LET ev == EventCatalogue[k]
      s == LoopAlone(ev, Len(ev.tracks))
  IN  /\ MeetsEventCuts(ev)
      /\ s.nPrimaryForTracks >= 5 /\ s.nPrimaryBackTracks >= 5
      /\ s.nPrimaryForTracks_1 >= 5 /\ s.nPrimaryForTracks_2 >= 5
      /\ s.nPrimaryForTracks_3 >= 5
FillingEntries == {k \in 1..Len(EventCatalogue) : WouldFill(k)}
IsFilling(k) == k \in FillingEntries

\* The event numbers of the records the first n files of the list yield, in
\* order: those of the usable files, an unusable file yielding none.
RECURSIVE FilledFrom(_)
FilledFrom(n) ==
  IF n = 0 THEN <<>>
  ELSE FilledFrom(n - 1) \o
       (IF fileNames[n].state = "ok"
        THEN SelectSeq(fileNames[n].entries, IsFilling) ELSE <<>>)

FilledNumbers == [k \in 1..Len(outTree) |-> outTree[k].outEVENTNUMBER]

\* C15: whatever files of the list are unusable, the run reaches its end only
\* after the file loop has passed every name; at each file-loop head and at the
\* end the output tree holds, in order, the records of all usable files passed
\* so far, and while a file is being read it still holds those of the files
\* before it; the output file is written once, at the end, with that tree, and
\* closed.
C15_SkipUnusableFiles ==
  pc # "idle" =>
    /\ pc \in {"file", "done"} => FilledNumbers = FilledFrom(iFile - 1)
    /\ pc \notin {"file", "done"} =>
         /\ Len(FilledFrom(iFile - 1)) <= Len(outTree)
         /\ SubSeq(FilledNumbers, 1, Len(FilledFrom(iFile - 1))) = FilledFrom(iFile - 1)
    /\ pc # "done" => outFile = [written |-> <<>>, open |-> TRUE]
    /\ pc = "done" =>
         /\ iFile = Len(fileNames) + 1
         /\ outFile = [written |-> <<outTree>>, open |-> FALSE]

\* The run has ended over three files, the second of them unusable: the
\* output tree holds the record of the first and that of the third.
C15_Witness ==
  /\ pc = "done" /\ Len(fileNames) = 3
  /\ fileNames[1].state = "ok" /\ fileNames[2].state # "ok" /\ fileNames[3].state = "ok"
  /\ Len(FilledFrom(1)) = 1 /\ Len(FilledFrom(3)) = 2
  /\ Len(outTree) = 2
  /\ outFile.written = <<outTree>>

====
